---- MODULE Spec2Model ----
(***************************************************************************)
(* Batch orchestration of GeneratorView                                    *)
(* (src/frontend/src/components/Dashboard.tsx): handleSubmit with its      *)
(* sequential uploads, the batch-create call, and the two interval timers  *)
(* that query the batch status: the useEffect poll keyed on batchId and    *)
(* the checkCompletion interval created by handleSubmit.                   *)
(*                                                                         *)
(* Everything runs on one event loop: an action is one run-to-completion   *)
(* step (a click, the continuation after an await, a timer tick, a promise *)
(* callback).  React state updates made in a step are shown as applied at  *)
(* the end of the step, together with the effects they trigger.            *)
(*                                                                         *)
(* The form fields prompts, refImages and refImageMode can be edited at    *)
(* any time while the view is mounted; handleSubmit reads the values of    *)
(* the render in which the button was clicked, so they enter the model as  *)
(* the inputs of the click and are kept in the invocation's record.        *)
(*                                                                         *)
(* The pure parts of handleSubmit are studied on their own as well: the    *)
(* item expansion (FanSpec) and parsePromptLine (ParseSpec) are applied to *)
(* every combination of a bounded set of arguments.                        *)
(***************************************************************************)
EXTENDS Integers, Sequences, FiniteSets, Bags, TLC

(* ---- bounds of the exploration ---------------------------------------- *)

\* invocations of handleSubmit in one behaviour
MaxSubmits == 2

\* reference images selected in one behaviour, over all its submissions
MaxImages == 2

\* network calls (uploads, batch-create calls, status queries) pending at the same time
MaxPending == 2

\* items submitted in one behaviour, over all its batches
MaxItems == 2

\* batches whose status queries are rejected in one behaviour
MaxFailing == 1

\* reference images in the study of the item expansion
MaxRefs == 3

\* pieces a line is put together from in the study of parsePromptLine
MaxChunks == 4

\* lines of an imported file
MaxCsvLines == 3

(* ---- values ------------------------------------------------------------ *)

\* batch ids are the positive integers; useState<string | null>(null)
Null == 0

\* no interval is registered
NoTimer == -1

\* useState<any>(null): jobStatus is <<>> or holds one response body
NoStatus == <<>>

NL == "\n"

WhiteSpace == {" ", "\t", "\r", NL}

\* refImageMode: 'cycle' | 'all' | 'combined'
Modes == {"combined", "cycle", "all"}

\* texts of the bulk prompt box, one character per element
PromptTexts ==
    { <<" ", NL>>,
      <<"a">>,
      <<"a", NL, NL, "b", " ">> }

AlertNone == "none"

AlertNoPrompt == "Please enter at least one prompt"

AlertFailed == "Failed to submit batch: "

(* ---- strings ----------------------------------------------------------- *)

RECURSIVE TrimStart(_)
\* String.prototype.trim, leading part
TrimStart(s) ==
    IF s # <<>> /\ Head(s) \in WhiteSpace THEN TrimStart(Tail(s)) ELSE s

RECURSIVE TrimEnd(_)
\* String.prototype.trim, trailing part
TrimEnd(s) ==
    IF s # <<>> /\ s[Len(s)] \in WhiteSpace
    THEN TrimEnd(SubSeq(s, 1, Len(s) - 1))
    ELSE s

\* p.trim()
Trim(s) == TrimEnd(TrimStart(s))

RECURSIVE SplitLines(_)
\* prompts.split('\n'): always at least one piece, the empty text gives <<"">>
SplitLines(t) ==
    IF \E i \in 1..Len(t) : t[i] = NL
    THEN LET i == CHOOSE j \in 1..Len(t) :
                      t[j] = NL /\ \A k \in 1..(j - 1) : t[k] # NL
         IN  <<SubSeq(t, 1, i - 1)>> \o SplitLines(SubSeq(t, i + 1, Len(t)))
    ELSE <<t>>

\* the filter callback p => p.trim(): a non-empty string is truthy
KeepLineNoTrim(p) == p # <<>>

KeepLine(p) == Trim(p) # <<>>

RECURSIVE FilterLines(_)
FilterLines(ls) ==
    IF ls = <<>> THEN <<>>
    ELSE (IF KeepLine(Head(ls)) THEN <<Head(ls)>> ELSE <<>>)
         \o FilterLines(Tail(ls))

\* const lines = prompts.split('\n').filter(p => p.trim())
PromptLines(prompts) == FilterLines(SplitLines(prompts))

(* ---- item expansion ---------------------------------------------------- *)
(* An item's prompt, prompt_number and negative_prompt are computed by     *)
(* parsePromptLine from the one line the item is built from; the item      *)
(* keeps that line in the field src.  The settings shared by all items     *)
(* (modelId, width, height, num_images, userElements, advancedParams) are  *)
(* the same in every item and are left out.                                *)

NoRefItem(p) == [src |-> p]

CombinedItemWithSingle(p, ids) ==
    [src |-> p, init_image_ids |-> ids, init_image_id |-> ids[1]]

CombinedItem(p, ids) == [src |-> p, init_image_ids |-> ids]

SingleRefItem(p, id) == [src |-> p, init_image_id |-> id]

RECURSIVE AllModeItems(_, _), AllModeItemsOneShort(_, _)
\* for (const line of lines) for (const imageId of uploadedImageIds) push
AllModeItemsOneShort(lines, ids) ==
    IF lines = <<>> THEN <<>>
    ELSE [k \in 1..(Len(ids) - 1) |-> SingleRefItem(Head(lines), ids[k])]
         \o AllModeItemsOneShort(Tail(lines), ids)

AllModeItems(lines, ids) ==
    IF lines = <<>> THEN <<>>
    ELSE [k \in 1..Len(ids) |-> SingleRefItem(Head(lines), ids[k])]
         \o AllModeItems(Tail(lines), ids)

\* let items = [] ... the four branches on uploadedImageIds.length and refImageMode
BuildItemsNoWrap(lines, ids, mode) ==
    IF Len(ids) = 0
    THEN [i \in 1..Len(lines) |-> NoRefItem(lines[i])]
    ELSE IF mode = "combined"
    THEN [i \in 1..Len(lines) |-> CombinedItem(lines[i], ids)]
    ELSE IF mode = "cycle"
    THEN [i \in 1..Len(lines) |->
             SingleRefItem(lines[i], ids[IF i <= Len(ids) THEN i ELSE Len(ids)])]
    ELSE AllModeItems(lines, ids)

BuildItems(lines, ids, mode) ==
    IF Len(ids) = 0
    THEN [i \in 1..Len(lines) |-> NoRefItem(lines[i])]
    ELSE IF mode = "combined"
    THEN [i \in 1..Len(lines) |-> CombinedItem(lines[i], ids)]
    ELSE IF mode = "cycle"
    THEN [i \in 1..Len(lines) |->
             SingleRefItem(lines[i], ids[((i - 1) % Len(ids)) + 1])]
    ELSE AllModeItems(lines, ids)

\* the body of the batch-create call: { items, apiKey }
PostBodyFirstItemOnly(items) == [items |-> SubSeq(items, 1, 1), apiKey |-> "key"]

PostBody(items) == [items |-> items, apiKey |-> "key"]

(* ---- parsePromptLine ---------------------------------------------------- *)
(* Strings are sequences of one-character strings.  A number is its        *)
(* decimal numeral without leading zeros, a sequence of digit characters,  *)
(* because a JavaScript number is an IEEE double and holds integers beyond *)
(* the range of a machine word.  undefined is <<>> and a defined value v   *)
(* is <<v>>.                                                               *)

\* \d
Digits == {"0", "1", "2", "3", "4", "5", "6", "7", "8", "9"}

DigitVal ==
    [c \in Digits |->
        CASE c = "0" -> 0 [] c = "1" -> 1 [] c = "2" -> 2 [] c = "3" -> 3 [] c = "4" -> 4
          [] c = "5" -> 5 [] c = "6" -> 6 [] c = "7" -> 7 [] c = "8" -> 8 [] c = "9" -> 9]

DigitChar == [n \in 0..9 |-> CHOOSE c \in Digits : DigitVal[c] = n]

\* the characters `.` does not match (no s flag)
LineTerminators == {NL, "\r"}

\* the i flag: canonical case of a character
Fold(c) ==
    CASE c = "N" -> "n" [] c = "E" -> "e" [] c = "G" -> "g" [] c = "A" -> "a"
      [] OTHER -> c

\* the length of the longest run of \s that starts at position from of s
WsRun(s, from) ==
    LET ns == {n \in 0..(Len(s) - from + 1) :
                  \A i \in from..(from + n - 1) : s[i] \in WhiteSpace}
    IN  CHOOSE n \in ns : \A m \in ns : m <= n

\* the numeral without its leading zeros
RECURSIVE StripZeros(_)
StripZeros(ds) ==
    IF Len(ds) > 1 /\ Head(ds) = "0" THEN StripZeros(Tail(ds)) ELSE ds

\* a <= b for numerals of the same length
RECURSIVE LeqDigits(_, _)
LeqDigits(a, b) ==
    IF a = <<>> THEN TRUE
    ELSE IF DigitVal[Head(a)] # DigitVal[Head(b)] THEN DigitVal[Head(a)] < DigitVal[Head(b)]
    ELSE LeqDigits(Tail(a), Tail(b))

\* the numeral of v + 1
RECURSIVE Increment(_)
Increment(v) ==
    IF v = <<>> THEN <<"1">>
    ELSE LET n == Len(v)
             d == DigitVal[v[n]]
         IN  IF d < 9 THEN SubSeq(v, 1, n - 1) \o <<DigitChar[d + 1]>>
             ELSE Increment(SubSeq(v, 1, n - 1)) \o <<"0">>

\* 2^53: up to it every integer is a double
TwoTo53 == <<"9","0","0","7","1","9","9","2","5","4","7","4","0","9","9","2">>

\* the double nearest to the integer v, for v below 10^16 (which is below 2^54): above
\* 2^53 the doubles are the even integers, and a tie goes to the even mantissa, which
\* is the multiple of 4
ToDouble(v) ==
    LET n == Len(v)
        last == DigitVal[v[n]]
        last2 == (DigitVal[v[n - 1]] * 10 + last) % 4
    IN  IF n < 16 \/ LeqDigits(v, TwoTo53) \/ last % 2 = 0 THEN v
        ELSE IF last2 = 1 THEN SubSeq(v, 1, n - 1) \o <<DigitChar[last - 1]>>
        ELSE Increment(v)

\* parseInt(numberMatch[1], 10) on a run of digits
parseInt(ds) == ToDouble(StripZeros(ds))

\* line.match(/^\[(\d+)\]\s*/): <<>> or <<[digits, length of the match]>>
numberMatch(line) ==
    LET ks == {k \in 1..(Len(line) - 2) :
                  /\ line[1] = "["
                  /\ \A i \in 2..(k + 1) : line[i] \in Digits
                  /\ line[k + 2] = "]"}
    IN  IF ks = {} THEN <<>>
        ELSE LET k == CHOOSE x \in ks : TRUE
             IN  <<[digits |-> SubSeq(line, 2, k + 1),
                    length |-> k + 2 + WsRun(line, k + 3)]>>

\* --neg under the i flag at position k of r
IsNegAt(r, k) ==
    /\ k + 4 <= Len(r)
    /\ <<Fold(r[k]), Fold(r[k + 1]), Fold(r[k + 2]), Fold(r[k + 3]), Fold(r[k + 4])>>
         = <<"-", "-", "n", "e", "g">>

\* the second group of /^(.+?)\s*--neg\s+(.+)$/i when the first group ends at i:
\* \s* runs up to the next non-blank, --neg follows, \s+ takes what it can and gives
\* back one character when nothing else is left for (.+)
NegGroup2(r, i) ==
    LET k == i + 1 + WsRun(r, i + 1)
        e == k + 5
        w == WsRun(r, e)
        from == IF e + w <= Len(r) THEN e + w ELSE Len(r)
    IN  IF /\ \A x \in 1..i : r[x] \notin LineTerminators
           /\ IsNegAt(r, k)
           /\ w >= 1
           /\ e + w <= Len(r) \/ w >= 2
           /\ \A x \in from..Len(r) : r[x] \notin LineTerminators
        THEN <<SubSeq(r, from, Len(r))>>
        ELSE <<>>

\* remainingLine.match(/^(.+?)\s*--neg\s+(.+)$/i): <<>> or <<[g1, g2]>>; the lazy first
\* group is the shortest one that lets the rest match
negMatch(r) ==
    LET is == {i \in 1..Len(r) : NegGroup2(r, i) # <<>>}
    IN  IF is = {} THEN <<>>
        ELSE LET i == CHOOSE x \in is : \A y \in is : x <= y
             IN  <<[g1 |-> SubSeq(r, 1, i), g2 |-> NegGroup2(r, i)[1]]>>

\* IMPORTANT_VARIANTS (two of its twelve entries)
IMPORTANT_VARIANTS ==
    { [label |-> <<"R","a","i","s","i","n","g"," ","a"," ","c","u","b","e">>,
       value |-> <<"r","a","i","s","i","n","g","_","a","_","c","u","b","e">>],
      [label |-> <<"H","o","l","d","i","n","g"," ","a"," ","s","t","a","f","f">>,
       value |-> <<"h","o","l","d","i","n","g","_","a","_","s","t","a","f","f">>] }

\* `${triggerWord.trim()}, ${basePrompt} `
WithTrigger(tw, base) == Trim(tw) \o <<",", " ">> \o base \o <<" ">>

\* `${promptWithTrigger}, ${variantObj.label} imp = ${variantObj.value} `
WithVariant(p, v) ==
    p \o <<",", " ">> \o v.label \o <<" ", "i", "m", "p", " ", "=", " ">> \o v.value \o <<" ">>

\* negativePrompt.trim() || undefined
OrUndefined(s) == IF s = <<>> THEN <<>> ELSE <<s>>

\* the part of parsePromptLine after the prompt number: f holds the form fields
\* negativePrompt, loraId, triggerWord and impVariant
AfterNumber(remainingLine, f) ==
    LET m == negMatch(remainingLine)
        basePrompt == IF m # <<>> THEN Trim(m[1].g1) ELSE Trim(remainingLine)
        negative == IF m # <<>> THEN <<Trim(m[1].g2)>>
                    ELSE OrUndefined(Trim(f.negativePrompt))
        variants == {v \in IMPORTANT_VARIANTS : v.value = f.impVariant}
        promptWithTrigger ==
            IF Trim(f.loraId) # <<>> /\ Trim(f.triggerWord) # <<>>
            THEN WithTrigger(f.triggerWord, basePrompt)
            ELSE basePrompt
    IN  [prompt |-> IF variants = {} THEN promptWithTrigger
                    ELSE WithVariant(promptWithTrigger, CHOOSE v \in variants : TRUE),
         negative |-> negative]

parsePromptLine(line, f) ==
    LET n == numberMatch(line)
        remainingLine == IF n # <<>> THEN SubSeq(line, n[1].length + 1, Len(line)) ELSE line
        rest == AfterNumber(remainingLine, f)
    IN  [prompt |-> rest.prompt,
         negative |-> rest.negative,
         prompt_number |-> IF n # <<>> THEN <<parseInt(n[1].digits)>> ELSE <<>>]

(* ---- the items as sent --------------------------------------------------- *)
(* The object literals of the four branches: the fields parsePromptLine     *)
(* gives, and the reference fields of the branch.  strength is a fraction   *)
(* of 1; the model counts it in hundredths, the grid of the slider.         *)

\* the 1 of `1 - initStrength`, in hundredths
One == 100

\* <input type="range" min="0.1" max="0.9" step="0.05">, in hundredths
SliderValues == {10 + 5 * k : k \in 0..16}

\* referenceType
ReferenceTypes == {"character", "style", "content", "basic"}

\* strength: 1 - initStrength
StrengthAsSlider(initStrength) == initStrength

Strength(initStrength) == One - initStrength

\* prompt, prompt_number and negative_prompt of the item built from line it.src
FieldsOf(parsed) ==
    [prompt |-> parsed.prompt,
     prompt_number |-> parsed.prompt_number,
     negative_prompt |-> parsed.negative]

ParsedFields(it, f) == FieldsOf(parsePromptLine(it.src, f))

\* init_image_ids or init_image_id, with strength and reference_mode beside them
ReferenceFields(it, f) ==
    LET keys == DOMAIN it \ {"src"}
    IN  IF keys = {} THEN <<>>
        ELSE [k \in keys |-> it[k]]
             @@ [strength |-> Strength(f.initStrength), reference_mode |-> f.referenceType]

Item(it, f) == ParsedFields(it, f) @@ ReferenceFields(it, f)

\* const lines = ...; let items = ...: from the textarea to the item list
ItemsReversed(prompts, ids, f) ==
    LET its == BuildItems(PromptLines(prompts), ids, f.refImageMode)
    IN  [i \in 1..Len(its) |-> Item(its[Len(its) + 1 - i], f)]

Items(prompts, ids, f) ==
    LET its == BuildItems(PromptLines(prompts), ids, f.refImageMode)
    IN  [i \in 1..Len(its) |-> Item(its[i], f)]

(* ---- state -------------------------------------------------------------- *)

VARIABLES
    mounted,        \* a GeneratorView instance is mounted (App's activeTab is 'generate')
    selectedModel,  \* useState('') of the mounted instance
    isSubmitting,   \* useState(false) of the mounted instance
    batchId,        \* useState<string | null>(null) of the mounted instance
    jobStatus,      \* useState<any>(null) of the mounted instance
    pollTimer,      \* the interval of the useEffect keyed on batchId: NoTimer or its batch id
    subs,           \* the invocations of handleSubmit, in the order of their clicks
    inflight,       \* bag of status responses on their way to the client
    server,         \* the batches the provider created, indexed by batch id
    settledSeen,    \* batch ids for which a response with completed + failed == total arrived
    failedSeen,     \* batch ids for which a status query was rejected
    given,          \* the arguments a function of handleSubmit is studied on, <<>> if none
    built           \* what the function returned for them, <<>> before it has run

vars ==
    <<mounted, selectedModel, isSubmitting, batchId, jobStatus, pollTimer,
      subs, inflight, server, settledSeen, failedSeen, given, built>>

\* the variables of the view and its network
appVars ==
    <<mounted, selectedModel, isSubmitting, batchId, jobStatus, pollTimer,
      subs, inflight, server, settledSeen, failedSeen>>

\* the variables of the function studies
fnVars == <<given, built>>

viewVars == <<mounted, selectedModel, isSubmitting, batchId, jobStatus, pollTimer>>

\* uploadData.imageId of the k-th file of invocation s: opaque and distinct
ImageId(s, k) == <<"img", s, k>>

\* the state of a handleSubmit invocation right after the click: the values it closes
\* over, its locals, and a record of the network calls it has issued
NewSubmit(prompts, n, mode) ==
    [ live             |-> TRUE,      \* the instance whose handler this is is still mounted
      pc               |-> "start",
      prompts          |-> prompts,
      hasText          |-> \E i \in 1..Len(prompts) : prompts[i] \notin WhiteSpace,
      refImages        |-> n,
      mode             |-> mode,
      uploadedImageIds |-> <<>>,
      body             |-> <<>>,      \* the body of the batch-create call in flight
      uploads          |-> 0,         \* upload calls issued so far
      posts            |-> 0,         \* batch-create calls issued so far
      failedAt         |-> 0,         \* the upload that was answered non-2xx, 0 if none
      alert            |-> AlertNone,
      result           |-> "running",
      batch            |-> Null,      \* res.data.batchId
      timer            |-> FALSE,     \* checkCompletion is registered and not cleared
      notified         |-> 0 ]        \* calls of onBatchComplete

\* GET /jobs/{batchId} as the provider answers it
Snapshot(b) ==
    [batch |-> b, total |-> server[b].total,
     completed |-> server[b].completed, failed |-> server[b].failed]

\* s.completed + s.failed === s.total
Settled(s) == s.completed + s.failed = s.total

\* the batches with a rejected status query, observed or still in flight
Failing == failedSeen \cup {m.batch : m \in {x \in BagToSet(inflight) : ~x.ok}}

\* the outcomes a status query for b can have: an unknown id is rejected
Outcomes(b) ==
    IF b \notin DOMAIN server THEN {FALSE}
    ELSE IF b \in Failing \/ Cardinality(Failing) < MaxFailing THEN BOOLEAN
    ELSE {TRUE}

StatusResponse(timer, s, b, ok) ==
    [timer |-> timer, sub |-> s, live |-> TRUE, batch |-> b, ok |-> ok,
     data |-> IF ok THEN <<Snapshot(b)>> ELSE <<>>]

\* useEffect(() => { if (!batchId) return; const poll = setInterval(...) }, [batchId])
PollEffectNoGuard(bid) == bid

PollEffect(bid) == IF bid = Null THEN NoTimer ELSE bid

\* the view right after its first render
Quiet ==
    /\ mounted = TRUE
    /\ selectedModel = ""
    /\ isSubmitting = FALSE
    /\ batchId = Null
    /\ jobStatus = NoStatus
    /\ pollTimer = PollEffect(Null)
    /\ subs = <<>>
    /\ inflight = EmptyBag
    /\ server = <<>>
    /\ settledSeen = {}
    /\ failedSeen = {}

Init ==
    /\ Quiet
    /\ given = <<>>
    /\ built = <<>>

(* ---- handleSubmit ------------------------------------------------------- *)

\* if (!uploadRes.ok) throw new Error(`Upload failed: ...`)
UploadNeverThrows(ok) == FALSE

ThrowsOnUpload(ok) == ~ok

\* handleSubmit has returned: its locals are gone
ReturnedWithoutTimer(r, tag) ==
    [r EXCEPT !.pc = "done", !.result = tag, !.prompts = <<>>, !.mode = "combined",
              !.uploadedImageIds = <<>>, !.body = <<>>, !.timer = FALSE]

Returned(r, tag) ==
    [r EXCEPT !.pc = "done", !.result = tag, !.prompts = <<>>, !.mode = "combined",
              !.uploadedImageIds = <<>>, !.body = <<>>]

\* catch (e) { alert("Failed to submit batch: " + e) } finally { setIsSubmitting(false) }
CaughtSilently(r, tag) == Returned(r, tag)

Caught(r, tag) == Returned([r EXCEPT !.alert = AlertFailed], tag)

\* after the upload loop: the lines check, the expansion and the batch-create call
AfterUploads(r) ==
    LET lines == PromptLines(r.prompts)
    IN  IF Len(lines) = 0
        THEN Returned([r EXCEPT !.alert = AlertNoPrompt], "rejected")
        ELSE [r EXCEPT !.pc = "post",
                       !.posts = @ + 1,
                       !.body = <<PostBody(BuildItems(lines, r.uploadedImageIds, r.mode))>>]

\* for (const refImage of refImages): the next fetch, or the code after the loop
NextUpload(r) ==
    IF Len(r.uploadedImageIds) < r.refImages
    THEN [r EXCEPT !.pc = "upload", !.uploads = @ + 1]
    ELSE AfterUploads(r)

\* the network calls that have been issued and have not returned
Pending ==
    BagCardinality(inflight)
    + Cardinality({s \in DOMAIN subs : subs[s].pc \in {"upload", "post"}})

Room == Pending < MaxPending

\* the Start Batch button: disabled={isSubmitting || !selectedModel}
ButtonEnabled == mounted /\ ~isSubmitting /\ selectedModel # ""

RECURSIVE SumOver(_, _)
SumOver(f, n) == IF n = 0 THEN 0 ELSE f[n] + SumOver(f, n - 1)

\* the items a form content expands to
ItemCount(prompts, n, mode) ==
    Len(PromptLines(prompts)) * (IF mode = "all" /\ n > 0 THEN n ELSE 1)

\* the images and items of the submissions so far
ImagesUsed ==
    SumOver([s \in DOMAIN subs |->
                 subs[s].refImages],
            Len(subs))

ItemsUsed ==
    SumOver([s \in DOMAIN subs |->
                 IF subs[s].pc = "done"
                 THEN (IF subs[s].batch = Null THEN 0 ELSE server[subs[s].batch].total)
                 ELSE ItemCount(subs[s].prompts, subs[s].refImages, subs[s].mode)],
            Len(subs))

\* the form contents explored: with no image the mode is not read
FormInputs ==
    {f \in [prompts : PromptTexts, n : 0..MaxImages, mode : Modes] :
        /\ f.n = 0 => f.mode = "combined"
        /\ f.n + ImagesUsed <= MaxImages
        /\ ItemCount(f.prompts, f.n, f.mode) + ItemsUsed <= MaxItems}

\* onClick={handleSubmit}, up to its first await or its return
Click(prompts, n, mode) ==
    /\ ButtonEnabled
    /\ Len(subs) < MaxSubmits
    /\ LET r == NextUpload(NewSubmit(prompts, n, mode))
       IN  /\ r.pc # "done" => Room
           /\ subs' = Append(subs, r)
           /\ isSubmitting' = (r.pc # "done")
    /\ UNCHANGED <<mounted, selectedModel, batchId, jobStatus, pollTimer,
                   inflight, server, settledSeen, failedSeen>>
    /\ UNCHANGED fnVars

\* the continuation of `await fetch(.../upload/init-image)`
UploadReturns(s, ok) ==
    /\ subs[s].pc = "upload"
    /\ LET r0 == subs[s]
           r1 == [r0 EXCEPT !.failedAt = IF ok \/ @ # 0 THEN @ ELSE r0.uploads]
           r2 == IF ThrowsOnUpload(ok)
                 THEN Caught(r1, "uploadFailed")
                 ELSE NextUpload([r1 EXCEPT !.uploadedImageIds =
                                     Append(@, ImageId(s, Len(@) + 1))])
       IN  /\ subs' = [subs EXCEPT ![s] = r2]
           /\ isSubmitting' = IF r0.live /\ r2.pc = "done" THEN FALSE ELSE isSubmitting
    /\ UNCHANGED <<mounted, selectedModel, batchId, jobStatus, pollTimer,
                   inflight, server, settledSeen, failedSeen>>
    /\ UNCHANGED fnVars

\* the continuation of `await apiClient.post('/generate/batch', ...)`, call accepted:
\* setBatchId, setJobStatus(null), setInterval(checkCompletion), finally
PostSucceeds(s) ==
    /\ subs[s].pc = "post"
    /\ LET r == subs[s]
           b == Len(server) + 1
           items == r.body[1].items
       IN  /\ server' = Append(server, [total |-> Len(items), completed |-> 0,
                                        failed |-> 0])
           /\ subs' = [subs EXCEPT ![s] =
                          Returned([r EXCEPT !.batch = b, !.timer = TRUE], "ok")]
           /\ IF r.live
              THEN /\ batchId' = b
                   /\ jobStatus' = NoStatus
                   /\ pollTimer' = PollEffect(b)
                   /\ isSubmitting' = FALSE
              ELSE UNCHANGED <<batchId, jobStatus, pollTimer, isSubmitting>>
    /\ UNCHANGED <<mounted, selectedModel, inflight, settledSeen, failedSeen>>
    /\ UNCHANGED fnVars

\* the same continuation without the finally block
PostFailsKeepsFlag(s) ==
    /\ subs[s].pc = "post"
    /\ subs' = [subs EXCEPT ![s] = Caught(subs[s], "postFailed")]
    /\ UNCHANGED <<mounted, selectedModel, isSubmitting, batchId, jobStatus, pollTimer,
                   inflight, server, settledSeen, failedSeen>>
    /\ UNCHANGED fnVars

\* the same continuation when the call is rejected: catch and finally
PostFails(s) ==
    /\ subs[s].pc = "post"
    /\ subs' = [subs EXCEPT ![s] = Caught(subs[s], "postFailed")]
    /\ isSubmitting' = IF subs[s].live THEN FALSE ELSE isSubmitting
    /\ UNCHANGED <<mounted, selectedModel, batchId, jobStatus, pollTimer,
                   inflight, server, settledSeen, failedSeen>>
    /\ UNCHANGED fnVars

\* a click on the enabled button, with any form content within the bounds
StartBatch ==
    /\ ButtonEnabled
    /\ Len(subs) < MaxSubmits
    /\ \E f \in FormInputs : Click(f.prompts, f.n, f.mode)

(* ---- the two status timers ---------------------------------------------- *)
(* The useEffect poll asks for `/jobs/${batchId}`.  checkCompletion asks   *)
(* for `/ jobs / ${res.data.batchId} `, written with blanks; how the       *)
(* provider answers that path is the provider's matter, so both outcomes   *)
(* of every query are kept.                                                *)

\* one tick of the useEffect interval: apiClient.get(`/jobs/${batchId}`)
PollTick ==
    /\ pollTimer # NoTimer
    /\ Room
    /\ \E ok \in Outcomes(pollTimer) :
           inflight' = inflight (+) SetToBag({StatusResponse("poll", 0, pollTimer, ok)})
    /\ UNCHANGED <<viewVars, subs, server, settledSeen, failedSeen>>
    /\ UNCHANGED fnVars

\* one tick of checkCompletion, up to its await
CheckTick(s) ==
    /\ subs[s].timer
    /\ Room
    /\ \E ok \in Outcomes(subs[s].batch) :
           inflight' = inflight (+)
               SetToBag({[StatusResponse("check", s, subs[s].batch, ok)
                             EXCEPT !.live = subs[s].live]})
    /\ UNCHANGED <<viewVars, subs, server, settledSeen, failedSeen>>
    /\ UNCHANGED fnVars

Seen(m) ==
    /\ settledSeen' = IF m.ok /\ Settled(m.data[1])
                      THEN settledSeen \cup {m.batch} ELSE settledSeen
    /\ failedSeen' = IF m.ok THEN failedSeen ELSE failedSeen \cup {m.batch}

\* .then(res => setJobStatus(res.data)).catch(console.error)
PollResponse(m) ==
    /\ m \in BagToSet(inflight)
    /\ m.timer = "poll"
    /\ inflight' = inflight (-) SetToBag({m})
    /\ jobStatus' = IF m.ok /\ m.live THEN m.data ELSE jobStatus
    /\ Seen(m)
    /\ UNCHANGED <<mounted, selectedModel, isSubmitting, batchId, pollTimer, subs, server>>
    /\ UNCHANGED fnVars

\* the rest of checkCompletion after its await: try { ... } catch (e) { clearInterval }
CheckResponse(m) ==
    /\ m \in BagToSet(inflight)
    /\ m.timer = "check"
    /\ inflight' = inflight (-) SetToBag({m})
    /\ jobStatus' = IF m.ok /\ m.live THEN m.data ELSE jobStatus
    /\ subs' = [subs EXCEPT ![m.sub] =
                   IF ~m.ok THEN [@ EXCEPT !.timer = FALSE]
                   ELSE IF Settled(m.data[1])
                   THEN [@ EXCEPT !.timer = FALSE, !.notified = @ + 1]
                   ELSE @]
    /\ Seen(m)
    /\ UNCHANGED <<mounted, selectedModel, isSubmitting, batchId, pollTimer, server>>
    /\ UNCHANGED fnVars

(* ---- the view's lifecycle ----------------------------------------------- *)

\* the callbacks of an unmounted instance no longer change any state
Orphaned(B) ==
    LET dead == {[m EXCEPT !.live = FALSE] : m \in BagToSet(B)}
    IN  [x \in dead |-> (IF x \in BagToSet(B) THEN B[x] ELSE 0)
                        + (IF [x EXCEPT !.live = TRUE] \in BagToSet(B)
                           THEN B[[x EXCEPT !.live = TRUE]] ELSE 0)]

\* the effect's cleanup: return () => clearInterval(poll)
Cleanup == NoTimer

\* App renders another tab: the instance and its state go, the cleanup runs
Unmount ==
    /\ mounted
    /\ mounted' = FALSE
    /\ selectedModel' = ""
    /\ isSubmitting' = FALSE
    /\ batchId' = Null
    /\ jobStatus' = NoStatus
    /\ pollTimer' = Cleanup
    /\ subs' = [s \in DOMAIN subs |-> [subs[s] EXCEPT !.live = FALSE]]
    /\ inflight' = Orphaned(inflight)
    /\ UNCHANGED <<server, settledSeen, failedSeen>>
    /\ UNCHANGED fnVars

\* App renders the generate tab again: a new instance with the initial state
Mount ==
    /\ ~mounted
    /\ mounted' = TRUE
    /\ pollTimer' = PollEffect(batchId)
    /\ UNCHANGED <<selectedModel, isSubmitting, batchId, jobStatus, subs, inflight,
                   server, settledSeen, failedSeen>>
    /\ UNCHANGED fnVars

\* the answer to GET /models: if (res.data.length > 0) setSelectedModel(res.data[0].id)
ModelsLoaded ==
    /\ mounted
    /\ selectedModel = ""
    /\ selectedModel' = "model-1"
    /\ UNCHANGED <<mounted, isSubmitting, batchId, jobStatus, pollTimer, subs, inflight,
                   server, settledSeen, failedSeen>>
    /\ UNCHANGED fnVars

(* ---- the provider ------------------------------------------------------- *)

JobCompletes(b) ==
    /\ server[b].completed + server[b].failed < server[b].total
    /\ server' = [server EXCEPT ![b].completed = @ + 1]
    /\ UNCHANGED <<viewVars, subs, inflight, settledSeen, failedSeen>>
    /\ UNCHANGED fnVars

JobFails(b) ==
    /\ server[b].completed + server[b].failed < server[b].total
    /\ server' = [server EXCEPT ![b].failed = @ + 1]
    /\ UNCHANGED <<viewVars, subs, inflight, settledSeen, failedSeen>>
    /\ UNCHANGED fnVars

(* ---- specification ------------------------------------------------------ *)

UploadAnswered == \E s \in DOMAIN subs, ok \in BOOLEAN : UploadReturns(s, ok)

BatchCreated == \E s \in DOMAIN subs : PostSucceeds(s)

BatchRejected == \E s \in DOMAIN subs : PostFails(s)

CheckCompletionTick == \E s \in DOMAIN subs : CheckTick(s)

PollAnswered == \E m \in BagToSet(inflight) : PollResponse(m)

CheckCompletionAnswered == \E m \in BagToSet(inflight) : CheckResponse(m)

JobCompleted == \E b \in DOMAIN server : JobCompletes(b)

JobFailed == \E b \in DOMAIN server : JobFails(b)

Next ==
    \/ StartBatch
    \/ UploadAnswered
    \/ BatchCreated
    \/ BatchRejected
    \/ PollTick
    \/ CheckCompletionTick
    \/ PollAnswered
    \/ CheckCompletionAnswered
    \/ Unmount
    \/ Mount
    \/ ModelsLoaded
    \/ JobCompleted
    \/ JobFailed

Spec == Init /\ [][Next]_vars

\* the network call invocation s of handleSubmit awaits returns or fails
Answered(s) ==
    /\ s \in DOMAIN subs
    /\ \/ \E ok \in BOOLEAN : UploadReturns(s, ok)
       \/ PostSucceeds(s)
       \/ PostFails(s)

\* every fetch and every apiClient.post is answered in the end, one way or the other
LiveSpec == Spec /\ \A s \in 1..MaxSubmits : WF_vars(Answered(s))

(* ---- the item expansion taken alone -------------------------------------- *)
(* handleSubmit between its upload loop and the batch-create call is a      *)
(* function of the textarea, the uploaded ids and the form: it is applied   *)
(* here to every combination of a few texts, id lists and settings.         *)

ThreeLines == <<"[", "1", "]", "a", NL, " ", NL, "b", NL, "c", NL>>

\* a line with a number and an override, and a plain line
TwoLines == <<"[", "1", "]", " ", "a", " ", "-", "-", "n", "e", "g", " ", "b", NL, "c">>

FanTexts == PromptTexts \cup {ThreeLines, TwoLines}

\* the default of negativePrompt, shortened
DefaultNegative == <<"u", "g", "l", "y">>

FanForms ==
    {[refImageMode |-> m, initStrength |-> s, referenceType |-> rt,
      negativePrompt |-> DefaultNegative, loraId |-> <<>>, triggerWord |-> <<>>,
      impVariant |-> <<>>] : m \in Modes, s \in SliderValues, rt \in ReferenceTypes}

FanInputs ==
    {[prompts |-> t, ids |-> [k \in 1..n |-> ImageId(1, k)], f |-> f] :
        t \in FanTexts, n \in 0..MaxRefs, f \in FanForms}

FanInit ==
    /\ Quiet
    /\ given \in {<<g>> : g \in FanInputs}
    /\ built = <<>>

\* lines 151 to 302 of handleSubmit on the given arguments; with no line left it
\* returns before it builds any item
Expand ==
    /\ given # <<>>
    /\ built = <<>>
    /\ PromptLines(given[1].prompts) # <<>>
    /\ built' = <<Items(given[1].prompts, given[1].ids, given[1].f)>>
    /\ UNCHANGED <<appVars, given>>

FanNext == Expand

FanSpec == FanInit /\ [][FanNext]_vars

\* the arguments and the result of the expansion
FanL ==
    LET t == given[1].prompts
    IN  Cardinality({i \in 1..Len(t) :
            /\ t[i] \notin WhiteSpace
            /\ \A j \in 1..(i - 1) :
                   (\A k \in j..(i - 1) : t[k] # NL) => t[j] \in WhiteSpace})

FanM == Len(given[1].ids)

FanMode == given[1].f.refImageMode

FanItems == built[1]

\* the line the j-th item is built from: the j-th, and in all mode with images the
\* one of the j-th pair
FanLineOf(j) ==
    IF FanM >= 1 /\ FanMode = "all" THEN ((j - 1) \div FanM) + 1 ELSE j

FanIds == given[1].ids

\* the lines the items are built from, in the order of the textarea
FanLines == PromptLines(given[1].prompts)

\* the prompt parsePromptLine gives for the i-th of those lines
FanPrompt(i) == parsePromptLine(FanLines[i], given[1].f).prompt

ReferenceKeys == {"init_image_id", "init_image_ids", "strength", "reference_mode"}

(* ---- parsePromptLine taken alone ------------------------------------------ *)
(* The lines are put together from a few pieces that matter to the two       *)
(* regular expressions; the function itself works on the characters.         *)

Chunks ==
    { <<"[", "0", "0", "7", "]">>,
      <<"[", "9","0","0","7","1","9","9","2","5","4","7","4","0","9","9","3", "]">>,
      <<"[">>, <<"]">>, <<" ">>, <<"a">>,
      <<"-", "-", "n", "e", "g", " ">>,
      <<"-", "-", "N", "e", "G">> }

RECURSIVE Concat(_)
Concat(cs) == IF cs = <<>> THEN <<>> ELSE Head(cs) \o Concat(Tail(cs))

\* the lines the filter of line 151 lets through
ParseLines ==
    {l \in {Concat(cs) : cs \in UNION {[1..n -> Chunks] : n \in 1..MaxChunks}} :
        KeepLine(l)}

HoldingAStaff == <<"h","o","l","d","i","n","g","_","a","_","s","t","a","f","f">>

\* negativePrompt, loraId, triggerWord, impVariant
Form(ng, lora, tw, v) ==
    [negativePrompt |-> ng, loraId |-> lora, triggerWord |-> tw, impVariant |-> v]

ParseForms ==
    { Form(<<"u", " ">>, <<>>, <<>>, <<>>),
      Form(<<" ">>, <<>>, <<>>, <<>>),
      Form(<<>>, <<>>, <<>>, <<>>),
      Form(<<"u", " ">>, <<"7">>, <<" ", "t">>, <<>>),
      Form(<<"u", " ">>, <<"7">>, <<" ">>, <<>>),
      Form(<<"u", " ">>, <<" ">>, <<"t">>, <<>>),
      Form(<<"u", " ">>, <<>>, <<>>, HoldingAStaff),
      Form(<<"u", " ">>, <<"7">>, <<"t">>, HoldingAStaff) }

ParseInit ==
    /\ Quiet
    /\ given \in {<<[line |-> l, f |-> f]>> : l \in ParseLines, f \in ParseForms}
    /\ built = <<>>

\* const parsed = parsePromptLine(p)
Parse ==
    /\ given # <<>>
    /\ built = <<>>
    /\ built' = <<parsePromptLine(given[1].line, given[1].f)>>
    /\ UNCHANGED <<appVars, given>>

ParseNext == Parse

ParseSpec == ParseInit /\ [][ParseNext]_vars

\* the arguments and the result of parsePromptLine
Line == given[1].line

FormOf == given[1].f

Parsed == built[1]

\* the line begins with [, a run of k digits and ]
TagDigitCounts ==
    {k \in 1..(Len(Line) - 2) :
        /\ Line[1] = "["
        /\ \A i \in 2..(k + 1) : Line[i] \in Digits
        /\ Line[k + 2] = "]"}

HasTag == TagDigitCounts # {}

TagDigits == SubSeq(Line, 2, 1 + CHOOSE k \in TagDigitCounts : TRUE)

\* the line without its tag and the blanks after it; the whole line if it has no tag
Remainder ==
    IF HasTag THEN TrimStart(SubSeq(Line, Len(TagDigits) + 3, Len(Line))) ELSE Line

\* the places of the remainder where --neg (in any case) is followed by a blank and,
\* further on, by text
SeparatorsWithText ==
    {p \in 1..Len(Remainder) :
        /\ IsNegAt(Remainder, p)
        /\ p + 5 <= Len(Remainder)
        /\ Remainder[p + 5] \in WhiteSpace
        /\ \E q \in (p + 6)..Len(Remainder) : Remainder[q] \notin WhiteSpace}

FirstSeparator == CHOOSE p \in SeparatorsWithText : \A q \in SeparatorsWithText : p <= q

\* --neg followed by a blank occurs nowhere in the remainder
NoSeparator ==
    \A p \in 1..Len(Remainder) :
        ~(IsNegAt(Remainder, p) /\ p + 5 <= Len(Remainder) /\ Remainder[p + 5] \in WhiteSpace)

\* neither the trigger word nor an Important Variant is added to the base prompt
Undecorated ==
    /\ Trim(FormOf.loraId) = <<>> \/ Trim(FormOf.triggerWord) = <<>>
    /\ \A v \in IMPORTANT_VARIANTS : v.value # FormOf.impVariant

\* the entries of IMPORTANT_VARIANTS the form selects: one or none
SelectedVariants == {v \in IMPORTANT_VARIANTS : v.value = FormOf.impVariant}

\* the prompt of the line before a variant is appended to it
PromptBeforeVariant == parsePromptLine(Line, [FormOf EXCEPT !.impVariant = <<>>]).prompt

\* the base prompt of the line: its prompt when nothing is added to it
BasePrompt ==
    parsePromptLine(Line, [FormOf EXCEPT !.loraId = <<>>, !.triggerWord = <<>>,
                                         !.impVariant = <<>>]).prompt

(* ---- isFluxKontext taken alone -------------------------------------------- *)
(* The flag is a function of three fields of the form: the model picked in    *)
(* the list, the custom-model switch and the custom id typed by the user.     *)

UpperLetters ==
    <<"A", "B", "C", "D", "E", "F", "G", "H", "I", "J", "K", "L", "M",
      "N", "O", "P", "Q", "R", "S", "T", "U", "V", "W", "X", "Y", "Z">>

LowerLetters ==
    <<"a", "b", "c", "d", "e", "f", "g", "h", "i", "j", "k", "l", "m",
      "n", "o", "p", "q", "r", "s", "t", "u", "v", "w", "x", "y", "z">>

\* String.prototype.toLowerCase
toLowerCase(s) ==
    [i \in 1..Len(s) |->
        IF \E k \in 1..26 : UpperLetters[k] = s[i]
        THEN LowerLetters[CHOOSE k \in 1..26 : UpperLetters[k] = s[i]]
        ELSE s[i]]

\* the same id as an upper-case hex string, as some tools print a UUID
toUpperCase(s) ==
    [i \in 1..Len(s) |->
        IF \E k \in 1..26 : LowerLetters[k] = s[i]
        THEN UpperLetters[CHOOSE k \in 1..26 : LowerLetters[k] = s[i]]
        ELSE s[i]]

\* String.prototype.includes
includes(s, sub) ==
    \E i \in 0..(Len(s) - Len(sub)) : SubSeq(s, i + 1, i + Len(sub)) = sub

\* '28aeddf8-bd19-4803-80fc-79602d1a9989'
FLUX_KONTEXT_ID ==
    <<"2", "8", "a", "e", "d", "d", "f", "8", "-", "b", "d", "1", "9", "-",
      "4", "8", "0", "3", "-", "8", "0", "f", "c", "-",
      "7", "9", "6", "0", "2", "d", "1", "a", "9", "9", "8", "9">>

\* 'kontext'
Kontext == <<"k", "o", "n", "t", "e", "x", "t">>

\* useCustomModel && customModelId.trim() ? customModelId.trim() : selectedModel
effectiveModelId(useCustomModel, customModelId, selected) ==
    IF useCustomModel /\ Trim(customModelId) # <<>> THEN Trim(customModelId) ELSE selected

\* effectiveModelId === '28aeddf8-...' || effectiveModelId.toLowerCase().includes('kontext')
isFluxKontext(id) == id = FLUX_KONTEXT_ID \/ includes(toLowerCase(id), Kontext)

\* ids of the model list, with '' before the list is loaded
ModelIds ==
    { <<>>,
      FLUX_KONTEXT_ID,
      toUpperCase(FLUX_KONTEXT_ID),
      Kontext,
      toUpperCase(Kontext),
      <<"f", "l", "u", "x", "-", "K", "o", "n", "t", "e", "x", "t", "-", "p", "r", "o">>,
      <<"k", "o", "n", "t", "e", "x">>,
      <<"d", "e", "7", "d", "3", "f", "a", "f">> }

\* what the user may type in the custom id field: an id, with or without blanks around it
CustomIds == ModelIds \cup {<<" ">> \o id \o <<" ">> : id \in ModelIds}

KontextInit ==
    /\ Quiet
    /\ given \in {<<[useCustomModel |-> u, customModelId |-> c, selectedModel |-> m]>> :
                     u \in BOOLEAN, c \in CustomIds, m \in ModelIds}
    /\ built = <<>>

\* a render of GeneratorView computes the flag
Detect ==
    /\ given # <<>>
    /\ built = <<>>
    /\ built' = <<isFluxKontext(effectiveModelId(given[1].useCustomModel,
                                                 given[1].customModelId,
                                                 given[1].selectedModel))>>
    /\ UNCHANGED <<appVars, given>>

KontextSpec == KontextInit /\ [][Detect]_vars

\* the id the flag is computed from
EffectiveId ==
    effectiveModelId(given[1].useCustomModel, given[1].customModelId, given[1].selectedModel)

(* ---- the CSV import taken alone ------------------------------------------- *)
(* reader.onload of the Import CSV input: a function of the file's text and   *)
(* of the textarea's content.  The files are put together from a few header   *)
(* lines and data lines; the function itself works on the characters.         *)

RECURSIVE split(_, _)
\* String.prototype.split with a one-character separator
split(s, sep) ==
    IF \E i \in 1..Len(s) : s[i] = sep
    THEN LET i == CHOOSE j \in 1..Len(s) :
                      s[j] = sep /\ \A k \in 1..(j - 1) : s[k] # sep
         IN  <<SubSeq(s, 1, i - 1)>> \o split(SubSeq(s, i + 1, Len(s)), sep)
    ELSE <<s>>

RECURSIVE join(_, _)
\* Array.prototype.join
join(ss, sep) ==
    IF ss = <<>> THEN <<>>
    ELSE IF Len(ss) = 1 THEN ss[1]
    ELSE ss[1] \o <<sep>> \o join(Tail(ss), sep)

\* 'prompt'
PromptName == <<"p", "r", "o", "m", "p", "t">>

\* csvLines[0].split(',').map(h => h.trim().toLowerCase())
headers(csvLines) ==
    [k \in 1..Len(split(csvLines[1], ",")) |->
        toLowerCase(Trim(split(csvLines[1], ",")[k]))]

\* the 0-based column of the loop, with headers.indexOf('prompt') always taken as 0
headerIdxFirstColumn(csvLines) == 0

\* let headerIdx = 0; if (headers.includes('prompt')) headerIdx = headers.indexOf('prompt')
headerIdx(csvLines) ==
    IF \E k \in 1..Len(headers(csvLines)) : headers(csvLines)[k] = PromptName
    THEN (CHOOSE k \in 1..Len(headers(csvLines)) :
              /\ headers(csvLines)[k] = PromptName
              /\ \A j \in 1..(k - 1) : headers(csvLines)[j] # PromptName) - 1
    ELSE 0

\* if (parts[headerIdx]) extracted.push(parts[headerIdx].trim()), for one line
PushCell(parts, idx) ==
    IF idx + 1 <= Len(parts) /\ parts[idx + 1] # <<>> THEN <<Trim(parts[idx + 1])>> ELSE <<>>

RECURSIVE ColumnLoop(_, _, _)
\* for (let i = 1; i < csvLines.length; i++) { ... }, from the 0-based index i on
ColumnLoop(csvLines, i, idx) ==
    IF i < Len(csvLines)
    THEN PushCell(split(csvLines[i + 1], ","), idx) \o ColumnLoop(csvLines, i + 1, idx)
    ELSE <<>>

RECURSIVE RawLoop(_)
\* csvLines.forEach(l => { if (l.trim()) extracted.push(l.trim()) })
RawLoop(ls) ==
    IF ls = <<>> THEN <<>>
    ELSE (IF Trim(Head(ls)) # <<>> THEN <<Trim(Head(ls))>> ELSE <<>>) \o RawLoop(Tail(ls))

\* extracted after the loop, and after the fallback when the loop pushed nothing
WithFallback(csvLines, fromColumn) ==
    IF fromColumn = <<>> /\ Len(csvLines) > 0 THEN RawLoop(csvLines) ELSE fromColumn

\* the array extracted when reader.onload is through with the text
extracted(text) ==
    WithFallback(split(text, NL), ColumnLoop(split(text, NL), 1, headerIdx(split(text, NL))))

\* setPrompts(prev => prev + (prev ? '\n' : '') + extracted.join('\n'))
ImportCsv(prev, text) ==
    prev \o (IF prev # <<>> THEN <<NL>> ELSE <<>>) \o join(extracted(text), NL)

\* first lines of a file
HeaderLines ==
    { <<>>,
      PromptName,
      <<" ", "P", "r", "o", "m", "p", "t", " ">>,
      <<"i", "d", ",", "P", "R", "O", "M", "P", "T">>,
      <<"i", "d", ",", "n">>,
      <<" ", "a", " ">>,
      <<"p", "r", "o", "m", "p", "t", "s", ",", "p", "r", "o", "m", "p", "t">> }

\* further lines of a file
DataLines ==
    { <<>>,
      <<" ">>,
      <<"a">>,
      <<" ", "a", " ">>,
      <<"1", ",", "b">>,
      <<"1", ",", " ", "b", " ", ",", "c">>,
      <<"1", ",">>,
      <<",", "b">>,
      <<"1", ",", " ">>,
      <<"a", "\r">> }

\* files of up to MaxCsvLines lines
CsvTexts ==
    UNION { {join(<<h>> \o ds, NL) : ds \in [1..n -> DataLines]} :
              h \in HeaderLines, n \in 0..(MaxCsvLines - 1) }

CsvInit ==
    /\ Quiet
    /\ given \in {<<[prev |-> pv, text |-> tx]>> : pv \in {<<>>, <<"x">>}, tx \in CsvTexts}
    /\ built = <<>>

\* reader.onload
Import ==
    /\ given # <<>>
    /\ built = <<>>
    /\ built' = <<[extracted |-> extracted(given[1].text),
                   prompts |-> ImportCsv(given[1].prev, given[1].text)]>>
    /\ UNCHANGED <<appVars, given>>

CsvSpec == CsvInit /\ [][Import]_vars

\* the file's lines, the first of them cut into its column names
RawLines == split(given[1].text, NL)

ColumnNames == split(RawLines[1], ",")

\* the columns whose name is prompt, blanks around it and case apart
PromptColumns ==
    {k \in 1..Len(ColumnNames) : toLowerCase(Trim(ColumnNames[k])) = PromptName}

\* the column the values are taken from
ValueColumn ==
    IF PromptColumns # {}
    THEN CHOOSE k \in PromptColumns : \A j \in PromptColumns : k <= j
    ELSE 1

\* the cell of the i-th line in the value column; <<>> if the line has no such cell
Cell(i) ==
    IF ValueColumn <= Len(split(RawLines[i], ",")) THEN split(RawLines[i], ",")[ValueColumn]
    ELSE <<>>

\* the lines after the first that have a value in the column, in the file's order
ValueLines == SelectSeq([i \in 1..(Len(RawLines) - 1) |-> i + 1], LAMBDA i : Cell(i) # <<>>)

\* the lines of the file that are not blank
NonBlankLines == SelectSeq([i \in 1..Len(RawLines) |-> i], LAMBDA i : Trim(RawLines[i]) # <<>>)

(* ---- what a step does to the network ------------------------------------ *)

\* the step issues the status query whose response is m
Issued(m) ==
    /\ BagCardinality(inflight') = BagCardinality(inflight) + 1
    /\ CopiesIn(m, inflight') = CopiesIn(m, inflight) + 1

\* the step issues a status query for batch b
QueryIssuedFor(b) == \E m \in BagToSet(inflight') : m.batch = b /\ Issued(m)

\* the step hands response m to its callback
Delivered(m) ==
    /\ BagCardinality(inflight') = BagCardinality(inflight) - 1
    /\ CopiesIn(m, inflight') = CopiesIn(m, inflight) - 1

\* an interval that queries batch b is registered
TimerFor(b) ==
    \/ pollTimer = b
    \/ \E s \in DOMAIN subs : subs[s].batch = b /\ subs[s].timer

\* the batch ids that batch-create responses have returned to handleSubmit
ReturnedIds == {subs[s].batch : s \in {x \in DOMAIN subs : subs[x].result = "ok"}}

Running == {s \in DOMAIN subs : subs[s].pc # "done"}

(* ---- claims ------------------------------------------------------------- *)

\* C1: once a status response with completed + failed == total has been observed for a
\* batch, no polling timer issues another status query for that batch.
C1_NoQueryAfterSettlement ==
    [][\A b \in settledSeen : ~QueryIssuedFor(b)]_vars

\* C2: once a status query for a batch has failed, no further status query is issued
\* for that batch and the snapshot held for it no longer changes.
C2_FailFastPolling ==
    [][\A b \in failedSeen :
          /\ ~QueryIssuedFor(b)
          /\ (mounted /\ mounted' /\ batchId = b /\ batchId' = b) => jobStatus' = jobStatus
      ]_vars

\* C3: when a response with completed + failed == total is handed to a polling callback,
\* then after that step no interval for the batch is left registered and onBatchComplete
\* has been called for the batch.
C3_SettlementStopsAndNotifies ==
    [][\A m \in BagToSet(inflight) :
          (Delivered(m) /\ m.ok /\ Settled(m.data[1]))
          => /\ ~TimerFor(m.batch)'
             /\ \E s \in DOMAIN subs' : subs'[s].batch = m.batch /\ subs'[s].notified >= 1
      ]_vars

\* C4: no status query is issued on behalf of a GeneratorView instance that has been
\* unmounted.
C4_NoQueryAfterUnmount ==
    [][\A m \in BagToSet(inflight') : Issued(m) => m.live]_vars

\* C5: every status query carries a batch id that a batch-create response returned
\* before, and every registered interval is for such an id; so there is no status query
\* before the first successful submission.
C5_PollingOnlyAfterCreate ==
    /\ \A m \in BagToSet(inflight) : m.batch \in ReturnedIds /\ m.batch \in DOMAIN server
    /\ pollTimer # NoTimer => pollTimer \in ReturnedIds
    /\ batchId # Null => batchId \in ReturnedIds
    /\ \A s \in DOMAIN subs : subs[s].timer => subs[s].batch \in ReturnedIds

C5_Witness ==
    \E m, n \in BagToSet(inflight) : m.timer = "poll" /\ n.timer = "check"

\* C6: a submission whose batch-create call failed has alerted the user, holds no batch
\* id, has registered no interval, has no status query of its own, and the view's batchId
\* and interval are those of a successful submission or none.
C6_SubmissionError ==
    \A s \in DOMAIN subs :
        subs[s].result = "postFailed"
        => /\ subs[s].alert = AlertFailed
           /\ subs[s].posts = 1
           /\ subs[s].batch = Null
           /\ ~subs[s].timer
           /\ subs[s].notified = 0
           /\ \A m \in BagToSet(inflight) : m.sub # s
           /\ batchId \in ReturnedIds \cup {Null}
           /\ pollTimer \in ReturnedIds \cup {NoTimer}

C6_Witness ==
    \E s \in DOMAIN subs :
        /\ subs[s].result = "postFailed"
        /\ subs[s].uploads = 1
        /\ subs[s].live

\* C7: once an upload of a submission is answered non-2xx the submission is over: the
\* failed upload is the last call it issued (no later image, no batch-create call, no
\* other call), the user is alerted, and no batch id, interval or status query comes of it.
C7_UploadError ==
    \A s \in DOMAIN subs :
        subs[s].failedAt # 0
        => /\ subs[s].pc = "done"
           /\ subs[s].result = "uploadFailed"
           /\ subs[s].uploads = subs[s].failedAt
           /\ subs[s].posts = 0
           /\ subs[s].alert = AlertFailed
           /\ subs[s].batch = Null
           /\ ~subs[s].timer
           /\ \A m \in BagToSet(inflight) : m.sub # s

C7_Witness ==
    \E s \in DOMAIN subs : subs[s].failedAt = 1 /\ subs[s].refImages = 2

\* C8: a start-batch action that is rejected for having no non-empty prompt line has
\* made no network call: no image upload and no batch-create call.
C8_InputErrorBeforeNetwork ==
    \A s \in DOMAIN subs :
        subs[s].result = "rejected" => subs[s].uploads = 0 /\ subs[s].posts = 0

\* C9: a submission issues at most one batch-create call; it has issued exactly one once
\* it is past its uploads with all of them answered 2xx and a non-blank prompt text; and
\* the call's body holds the whole expansion of its lines and image ids.
C9_OneBatchCreateCall ==
    \A s \in DOMAIN subs :
        LET r == subs[s]
        IN  /\ r.posts <= 1
            /\ r.pc = "upload" => r.posts = 0
            /\ r.pc = "post"
               => /\ r.posts = 1
                  /\ r.uploads = r.refImages /\ Len(r.uploadedImageIds) = r.refImages
                  /\ r.body = <<[items |-> BuildItems(PromptLines(r.prompts),
                                                     r.uploadedImageIds, r.mode),
                                 apiKey |-> "key"]>>
                  /\ Len(r.body[1].items) >= 1
            /\ (r.pc = "done" /\ r.failedAt = 0 /\ r.hasText) => r.posts = 1
            /\ (r.pc = "done" /\ r.posts = 1) => r.result \in {"ok", "postFailed"}

C9_Witness ==
    \E s \in DOMAIN subs :
        /\ subs[s].pc = "post"
        /\ subs[s].refImages = 2
        /\ Len(subs[s].body[1].items) = 2

\* C10: at most one invocation of handleSubmit is in flight at any time.
C10_OneSubmissionInFlight == Cardinality(Running) <= 1

\* the invocations of handleSubmit that await the answer to an upload
Uploading == {s \in DOMAIN subs : subs[s].pc = "upload"}

\* C11: at most one upload is in flight at any time; an invocation issues upload k+1
\* only after upload k has returned; and its identifier list holds at position k the id
\* returned for its k-th file.
C11_UploadsOneAtATime ==
    /\ Cardinality(Uploading) <= 1
    /\ \A s \in DOMAIN subs :
           LET r == subs[s]
           IN  /\ r.pc = "upload" => r.uploads = Len(r.uploadedImageIds) + 1
               /\ r.pc = "post" => r.uploads = Len(r.uploadedImageIds)
               /\ \A k \in 1..Len(r.uploadedImageIds) : r.uploadedImageIds[k] = ImageId(s, k)

\* C12: the item list has L items when there is no image, L items in combined and in
\* cycle mode, and L * M items in all mode, L being the number of lines of the textarea
\* that hold a non-blank character and M the number of uploaded images.
C12_FanOutCardinality ==
    built # <<>>
    => Len(FanItems) = IF FanM = 0 THEN FanL
                       ELSE IF FanMode = "all" THEN FanL * FanM
                       ELSE FanL

C12_Witness ==
    /\ built # <<>>
    /\ given[1].prompts = <<"a", NL, NL, "b", " ">>
    /\ FanMode = "all"
    /\ FanM = 3
    /\ Len(FanItems) = 6

\* C13: in cycle mode with M >= 1 images, the item at 0-based index i is built from the
\* i-th non-empty line and references the image id at position i mod M of the id list.
C13_CycleDeterminism ==
    (built # <<>> /\ FanMode = "cycle" /\ FanM >= 1)
    => /\ Len(FanItems) = Len(FanLines)
       /\ \A i \in 0..(Len(FanItems) - 1) :
              /\ FanItems[i + 1].init_image_id = FanIds[(i % FanM) + 1]
              /\ FanItems[i + 1].prompt = FanPrompt(i + 1)

C13_Witness ==
    /\ built # <<>>
    /\ FanMode = "cycle"
    /\ FanM = 2
    /\ Len(FanItems) = 3
    /\ FanItems[3].init_image_id = FanIds[1]

\* C14: in all mode the items are exactly the pairs (line, image), each once: the item
\* number (i - 1) * M + k is built from line i and carries the single image id k, for
\* every line i and image k, and there is no other item.
C14_AllModeCrossProduct ==
    (built # <<>> /\ FanMode = "all" /\ FanM >= 1)
    => /\ Len(FanItems) = Len(FanLines) * FanM
       /\ \A i \in 1..Len(FanLines), k \in 1..FanM :
              LET it == FanItems[(i - 1) * FanM + k]
              IN  /\ it.init_image_id = FanIds[k]
                  /\ it.prompt = FanPrompt(i)
                  /\ "init_image_ids" \notin DOMAIN it

C14_Witness ==
    /\ built # <<>>
    /\ FanMode = "all"
    /\ FanM = 3
    /\ Len(FanLines) = 2
    /\ Cardinality({<<FanItems[j].prompt, FanItems[j].init_image_id>> : j \in 1..6}) = 6

\* C15: with no uploaded image an item has none of the reference fields; in combined
\* mode every item has the whole id list in init_image_ids and no init_image_id; in cycle
\* and all mode every item has one id of the list in init_image_id and no
\* init_image_ids; no item has both.
C15_ReferenceShape ==
    built # <<>>
    => \A j \in 1..Len(FanItems) :
           LET keys == DOMAIN FanItems[j]
           IN  /\ FanM = 0 => keys \cap ReferenceKeys = {}
               /\ (FanM >= 1 /\ FanMode = "combined")
                  => /\ keys \cap ReferenceKeys = ReferenceKeys \ {"init_image_id"}
                     /\ FanItems[j].init_image_ids = FanIds
               /\ (FanM >= 1 /\ FanMode \in {"cycle", "all"})
                  => /\ keys \cap ReferenceKeys = ReferenceKeys \ {"init_image_ids"}
                     /\ \E k \in 1..FanM : FanItems[j].init_image_id = FanIds[k]
               /\ ~({"init_image_id", "init_image_ids"} \subseteq keys)

C15_Witness ==
    /\ built # <<>>
    /\ FanMode = "combined"
    /\ FanM = 2
    /\ Len(FanItems) = 2
    /\ FanItems[2].init_image_ids = FanIds

\* C16: every item that carries a reference carries the strength 1 - initStrength
\* (in hundredths: 100 - initStrength), for every value of the slider.
C16_StrengthInversion ==
    (built # <<>> /\ FanM >= 1)
    => \A j \in 1..Len(FanItems) :
           FanItems[j].strength + given[1].f.initStrength = 100

C16_Witness ==
    /\ built # <<>>
    /\ FanM >= 1
    /\ given[1].f.initStrength = 30
    /\ FanItems[1].strength = 70

\* C22: every item has the prompt, the prompt number and the negative prompt that
\* parsePromptLine gives for one and the same line, the items follow the order of the
\* lines, and with no image an item is exactly the parse of its line.
C22_OneLinePerItem ==
    built # <<>>
    => \A j \in 1..Len(FanItems) :
           LET i == FanLineOf(j)
               parsed == parsePromptLine(FanLines[i], given[1].f)
           IN  /\ i \in 1..Len(FanLines)
               /\ FanItems[j].prompt = parsed.prompt
               /\ FanItems[j].prompt_number = parsed.prompt_number
               /\ FanItems[j].negative_prompt = parsed.negative
               /\ FanM = 0 => DOMAIN FanItems[j] = {"prompt", "prompt_number", "negative_prompt"}

C22_Witness ==
    /\ built # <<>>
    /\ FanM = 0
    /\ FanItems = << [prompt |-> <<"a">>, prompt_number |-> << <<"1">> >>,
                      negative_prompt |-> << <<"b">> >>],
                     [prompt |-> <<"c">>, prompt_number |-> <<>>,
                      negative_prompt |-> << <<"u", "g", "l", "y">> >>] >>

\* C23: while no response for a submitted batch has shown it settled, no status query
\* for it has failed and the view that submitted it is still mounted, the batch keeps its
\* checkCompletion interval, and the useEffect interval too as long as it is the view's
\* current batch; so a tick keeps querying it whatever else has happened, the start of
\* another batch included.
C23_PollingGoesOn ==
    \A s \in DOMAIN subs :
        (/\ subs[s].result = "ok"
         /\ subs[s].live
         /\ subs[s].batch \notin settledSeen \cup failedSeen)
        => /\ subs[s].timer
           /\ TimerFor(subs[s].batch)
           /\ batchId = subs[s].batch => pollTimer = batchId

C23_Witness ==
    /\ Len(subs) = 2
    /\ subs[1].result = "ok" /\ subs[1].live /\ subs[1].timer
    /\ subs[2].result = "ok" /\ subs[2].live
    /\ batchId = subs[2].batch
    /\ pollTimer = subs[2].batch
    /\ subs[1].batch \notin settledSeen \cup failedSeen
    /\ \E m \in BagToSet(inflight) : m.batch = subs[1].batch /\ m.timer = "check"

\* C24: the model is flagged as Flux Kontext exactly when its effective id is the
\* literal id 28aeddf8-bd19-4803-80fc-79602d1a9989 in any case of its letters or
\* contains kontext in any case.
C24_FluxKontext ==
    built # <<>> =>
        (built[1] <=> \/ toLowerCase(EffectiveId) = FLUX_KONTEXT_ID
                      \/ includes(toLowerCase(EffectiveId), Kontext))

\* C25 as stated: when a value is extracted from a line after the first, the imported
\* prompts are the values of the prompt column (of the first column if no column is
\* named prompt), and the first line is not among them; when none is extracted they are
\* the non-empty lines of the file, each verbatim.
C25_CsvImportVerbatim ==
    built # <<>> =>
        IF ValueLines # <<>>
        THEN built[1].extracted = [k \in 1..Len(ValueLines) |-> Trim(Cell(ValueLines[k]))]
        ELSE built[1].extracted = [k \in 1..Len(NonBlankLines) |-> RawLines[NonBlankLines[k]]]

\* C25, amended: as above, but a line used as a whole is trimmed of the white space
\* around it.
C25_CsvImport ==
    built # <<>> =>
        IF ValueLines # <<>>
        THEN built[1].extracted = [k \in 1..Len(ValueLines) |-> Trim(Cell(ValueLines[k]))]
        ELSE built[1].extracted =
                 [k \in 1..Len(NonBlankLines) |-> Trim(RawLines[NonBlankLines[k]])]

C25_Witness ==
    /\ built # <<>>
    /\ Len(RawLines) = 3
    /\ ValueColumn = 2
    /\ Len(ValueLines) = 2
    /\ built[1].extracted # <<>>

\* C26: onBatchComplete is called at most once for a submitted batch, also when its
\* status queries overlap and more than one response reports the batch settled.
C26_NotifiedOnce == \A s \in DOMAIN subs : subs[s].notified <= 1

\* C27: at most one interval that queries a batch status is registered at any time,
\* the useEffect poll and the checkCompletion intervals of all submissions counted
\* together.
C27_OneTimer ==
    Cardinality({s \in DOMAIN subs : subs[s].timer})
        + (IF pollTimer # NoTimer THEN 1 ELSE 0) <= 1

\* C28: the displayed snapshot is empty or is a status response for the current
\* batchId; a response that belongs to an earlier batch never replaces it.
C28_SnapshotOfCurrentBatch == jobStatus = NoStatus \/ jobStatus[1].batch = batchId

\* C29: a step that replaces the displayed snapshot of a batch by another snapshot of
\* the same batch does not lower completed + failed (the provider's counters never go
\* down), in whatever order the responses of overlapping queries arrive.
C29_SnapshotMonotone ==
    [][(/\ jobStatus # NoStatus
        /\ jobStatus' # NoStatus
        /\ jobStatus'[1].batch = jobStatus[1].batch)
       => jobStatus'[1].completed + jobStatus'[1].failed
              >= jobStatus[1].completed + jobStatus[1].failed]_vars

\* C30: the flag isSubmitting is set only while an invocation of handleSubmit of the
\* mounted view is still running, and every invocation comes to its end, on whichever
\* path, when each of its network calls is answered.
C30_FlagCleared ==
    /\ [](isSubmitting => \E s \in DOMAIN subs : subs[s].live /\ subs[s].pc # "done")
    /\ \A s \in 1..MaxSubmits :
           (s \in DOMAIN subs /\ subs[s].pc # "done")
               ~> (/\ s \in DOMAIN subs
                   /\ subs[s].pc = "done"
                   /\ subs[s].live => ~isSubmitting)

C30_Witness ==
    /\ ~isSubmitting
    /\ \E s \in DOMAIN subs : subs[s].live /\ subs[s].result = "ok"
    /\ \E s \in DOMAIN subs : subs[s].live /\ subs[s].result = "postFailed"

\* C17: promptNumber is present exactly when the line begins with a bracketed run of
\* digits [N]; it then equals the decimal value N (the numeral without leading zeros)
\* and the prompt is that of the line without the tag; without a tag the prompt is that
\* of the whole line.
C17_PromptNumber ==
    built # <<>>
    => /\ HasTag <=> Parsed.prompt_number # <<>>
       /\ HasTag => Parsed.prompt_number = <<StripZeros(TagDigits)>>
       /\ Parsed.prompt = AfterNumber(Remainder, FormOf).prompt

\* C18: for a line that contains --neg X (in any case), the negative prompt is X trimmed,
\* whatever the global default, and the base prompt is the text before the separator.
C18_NegativeOverride ==
    (built # <<>> /\ SeparatorsWithText # {})
    => /\ Parsed.negative
            = <<Trim(SubSeq(Remainder, FirstSeparator + 5, Len(Remainder)))>>
       /\ Undecorated => Parsed.prompt = Trim(SubSeq(Remainder, 1, FirstSeparator - 1))

\* C19: for a line with no --neg separator the base prompt is the whole remainder
\* trimmed and the negative prompt is the global default trimmed, absent when that is
\* empty or blank; and the negative prompt of no line is the empty string.
C19_NegativeFallback ==
    built # <<>>
    => /\ NoSeparator
          => /\ Parsed.negative = IF Trim(FormOf.negativePrompt) = <<>> THEN <<>>
                                   ELSE <<Trim(FormOf.negativePrompt)>>
             /\ Undecorated => Parsed.prompt = Trim(Remainder)
       /\ Parsed.negative # << <<>> >>

\* C20: with no Important Variant selected, when the Element id and the trigger word are
\* both non-empty after trimming the prompt is exactly the trigger word, ", " and the
\* base prompt; when either is empty the prompt is the base prompt.
C20_TriggerWord ==
    (built # <<>> /\ \A v \in IMPORTANT_VARIANTS : v.value # FormOf.impVariant)
    => Parsed.prompt =
           IF Trim(FormOf.loraId) # <<>> /\ Trim(FormOf.triggerWord) # <<>>
           THEN Trim(FormOf.triggerWord) \o <<",", " ">> \o BasePrompt
           ELSE BasePrompt

\* C21: when an Important Variant is selected the prompt is the prompt with its trigger
\* word followed by exactly ", <label> imp=<slug>"; when none is selected nothing is
\* appended.
C21_VariantSuffix ==
    built # <<>>
    => /\ \A v \in SelectedVariants :
              Parsed.prompt = PromptBeforeVariant \o <<",", " ">> \o v.label
                              \o <<" ", "i", "m", "p", "=">> \o v.value
       /\ SelectedVariants = {} => Parsed.prompt = PromptBeforeVariant

====
